---- MODULE Spec2Model ----
(***************************************************************************)
(* Model of streamlint.py: the column mapper / budget normaliser           *)
(* (process_file) and the master-dataset assembly loop (main).             *)
(*                                                                         *)
(* Text is modelled as a tuple of one-character strings so that            *)
(* str.lower() and whitespace are computed, not assumed.  A DataFrame is   *)
(* a record [columns, rows]: columns is the ordered column index, rows is  *)
(* the sequence of rows, each a function from column name to cell.         *)
(***************************************************************************)
EXTENDS Integers, Sequences, FiniteSets, TLC

VARIABLES uploaded_files, pc, idx, all_dfs, standardized_df, processed_df,
          master_dataset, download, messages

vars == <<uploaded_files, pc, idx, all_dfs, standardized_df, processed_df,
          master_dataset, download, messages>>

Range(s) == {s[k] : k \in DOMAIN s}

(***************************************************************************)
(* Schema registry                                                         *)
(***************************************************************************)
DEMANDS == "Demands with pledges, commitment, or funding (Yes/No)"

SL_NO == "Sl No"

MASTER_COLUMNS ==
  << "Sl No", "Title", "Type of document", "Publication/Adoption Date", "Country",
     "Goals/objectives/vision statements", "Problems/challenges identified",
     "Calls for action/intervention", "Demands with pledges, commitment, or funding (Yes/No)",
     "Indicators of urgency/priority", "Type of demand", "Description of the specific Innovation(s)",
     "Type of Innovation", "CGIAR Impact Area(s)", "SDG Contribution",
     "Stakeholder groups involved", "Stakeholder group needs/demand/effective demand", "URL" >>

\* The three shapes of an alias rule: a single name, a list of candidates, None.
Single(name) == [kind |-> "name", names |-> <<name>>]

Candidates(names) == [kind |-> "list", names |-> names]

NoAlias == [kind |-> "none", names |-> <<>>]

THEMATIC == "Thematic Focus (Brief description of the main themes or sectors covered (e.g., agriculture, forestry, gender, employment).)"

IMPL_AGENCY == "Implementation Agency (Ministry/departments/boards, etc..)"

TITLE_FIRST == "Type of document (Policy; Program; Implementation plans; strategic plans, etc)"

BUDGET == "Budget Allocation (if any) Indicate if there is any budget attached and its size or source."

\* mapper_clim.items(), in dictionary (insertion) order.
mapper_clim ==
  << <<"Sl No", Single("Sl No")>>,
     <<"Country", Single("Country")>>,
     <<"Title", Candidates(<<TITLE_FIRST, "Policy">>)>>,
     <<"Type of document", Single("Policy Type \n(e.g., Policy, Strategy, Action Plan.)")>>,
     <<"Publication/Adoption Date", Candidates(<<"Publication/Adoption Date", "Year of adoption">>)>>,
     <<THEMATIC, Single(THEMATIC)>>,
     <<"Goals/objectives/vision statements",
       Single("Objectives/Goals (Short summary of the stated aims or goals of the policy).")>>,
     <<"Problems/challenges identified",
       Single("Remarks \n(Additional notes, such as challenges, reforms in progress, or relevance to global frameworks (e.g., SDGs).)")>>,
     <<"Calls for action/intervention",
       Single("Key Provisions or Measures\nSummary of major policy actions or mechanisms introduced.")>>,
     <<DEMANDS, Single(BUDGET)>>,
     <<"Description of the specific Innovation(s)",
       Single("Implementation Mechanism (Description of how the policy is implemented (e.g., through specific programs, agencies, funding mechanisms).)")>>,
     <<"SDG Contribution",
       Single("Policy Linkages\nRelated policies or alignment with international frameworks (e.g., SDGs, UNFCCC).")>>,
     <<"Stakeholder groups involved",
       Single("Implementation Agency \n(Ministry/departments/boards, etc..)")>>,
     <<"URL", Candidates(<<"URL", "Link to Full Document">>)>>,
     <<IMPL_AGENCY, Single(IMPL_AGENCY)>>,
     <<"Indicators of urgency/priority", NoAlias>>,
     <<"Type of demand", NoAlias>>,
     <<"Type of Innovation", NoAlias>>,
     <<"CGIAR Impact Area(s)", NoAlias>>,
     <<"Stakeholder group needs/demand/effective demand", NoAlias>> >>

\* mapper.get(key): the rule of key, None when key is no key of the mapper.
mapper_get(mapper, key) ==
  IF \E k \in DOMAIN mapper : mapper[k][1] = key
  THEN mapper[CHOOSE k \in DOMAIN mapper : mapper[k][1] = key][2]
  ELSE NoAlias

(***************************************************************************)
(* Cells and text                                                          *)
(***************************************************************************)
NaN == [t |-> "nan", s |-> <<>>, n |-> 0]

Str(chars) == [t |-> "str", s |-> chars, n |-> 0]

Num(k) == [t |-> "int", s |-> <<>>, n |-> k]

isna(cell) == cell.t = "nan"

fillna(cell, chars) == IF isna(cell) THEN Str(chars) ELSE cell

UpperCase ==
  <<"A","B","C","D","E","F","G","H","I","J","K","L","M","N","O","P","Q","R","S","T","U","V","W","X","Y","Z">>

LowerCase ==
  <<"a","b","c","d","e","f","g","h","i","j","k","l","m","n","o","p","q","r","s","t","u","v","w","x","y","z">>

DecimalDigits == <<"0","1","2","3","4","5","6","7","8","9">>

lower_char(c) ==
  IF \E k \in DOMAIN UpperCase : UpperCase[k] = c
  THEN LowerCase[CHOOSE k \in DOMAIN UpperCase : UpperCase[k] = c]
  ELSE c

\* str.lower(): every character lowered, nothing removed.
str_lower(chars) == [k \in 1..Len(chars) |-> lower_char(chars[k])]

RECURSIVE digits(_)
digits(k) ==
  IF k < 10 THEN <<DecimalDigits[k + 1]>>
  ELSE Append(digits(k \div 10), DecimalDigits[(k % 10) + 1])

\* astype(str) of one cell.
astype_str(cell) ==
  IF cell.t = "str" THEN cell.s
  ELSE IF cell.t = "int"
       THEN (IF cell.n < 0 THEN <<"-">> \o digits(0 - cell.n) ELSE digits(cell.n))
       ELSE <<"n","a","n">>

no_strings ==
  { <<"n","o","t"," ","s","p","e","c","i","f","i","e","d">>,
    <<"n","o"," ","e","x","c","l","u","s","i","v","e">>,
    <<"n","o","t"," ","p","u","b","l","i","c","l","y"," ","s","p","e","c","i","f","i","e","d">>,
    <<"n","o","t"," ","d","i","r","e","c","t">>,
    <<"n","o"," ","d","e","d","i","c","a","t","e","d"," ","b","u","d","g","e","t">> }

YES == Str(<<"Y","e","s">>)

NO == Str(<<"N","o">>)

(***************************************************************************)
(* DataFrame operations                                                    *)
(***************************************************************************)
None == [none |-> TRUE]

\* pd.DataFrame(columns=MASTER_COLUMNS): the 18 columns, no row.
EmptyFrame == [columns |-> MASTER_COLUMNS, rows |-> <<>>]

with_column(columns, c) ==
  IF c \in Range(columns) THEN columns ELSE Append(columns, c)

\* row[c] = v, the column added to the row when new.
put(row, c, v) ==
  IF c \in DOMAIN row THEN [row EXCEPT ![c] = v] ELSE row @@ (c :> v)

\* The first r rows with column c set from values, row by row.
RECURSIVE assign(_, _, _, _)
assign(rows, c, values, r) ==
  IF r = 0 THEN <<>>
  ELSE Append(assign(rows, c, values, r - 1), put(rows[r], c, values[r]))

\* frame[c] = scalar: the column is added when new; every existing row gets
\* the scalar; a frame without rows stays without rows.
set_scalar(frame, c, v) ==
  [columns |-> with_column(frame.columns, c),
   rows |-> assign(frame.rows, c, [r \in 1..Len(frame.rows) |-> v], Len(frame.rows))]

\* frame[c] = values (a Series of the source table, or an array): a frame
\* without rows first takes the index of the values, its columns filled with
\* NaN; then the column is set row by row.
set_values(frame, c, values) ==
  LET base == IF Len(frame.rows) = 0
              THEN [r \in 1..Len(values) |-> [k \in Range(frame.columns) |-> NaN]]
              ELSE frame.rows
  IN [columns |-> with_column(frame.columns, c),
      rows |-> assign(base, c, values, Len(base))]

\* df[name]: the column of the source table as a sequence of cells.
column_of(df, name) == [r \in 1..Len(df.rows) |-> df.rows[r][name]]

\* dropna(how='all'): keep the rows with at least one non-NaN cell.
row_all_na(frame, row) == \A k \in Range(frame.columns) : isna(row[k])

dropna_all(frame) ==
  [columns |-> frame.columns,
   rows |-> SelectSeq(frame.rows, LAMBDA row : ~ row_all_na(frame, row))]

is_empty(frame) == Len(frame.rows) = 0 \/ Len(frame.columns) = 0

(***************************************************************************)
(* process_file                                                            *)
(***************************************************************************)
\* Variant: the last candidate present wins.
last_present(names, columns) ==
  IF \E k \in DOMAIN names : names[k] \in columns
  THEN names[CHOOSE k \in DOMAIN names :
               /\ names[k] \in columns
               /\ \A j \in (k + 1)..Len(names) : names[j] \notin columns]
  ELSE ""

\* The first candidate, in list order, that is a column of the source table;
\* "" when none is.
first_present(names, columns) ==
  IF \E k \in DOMAIN names : names[k] \in columns
  THEN names[CHOOSE k \in DOMAIN names :
               /\ names[k] \in columns
               /\ \A j \in 1..(k - 1) : names[j] \notin columns]
  ELSE ""

\* Variant: only list rules are resolved; a single name falls to the NaN fill.
map_column_lists_only(frame, df, target_col, source_col) ==
  IF source_col.kind = "list"
  THEN LET col_name == first_present(source_col.names, df.columns) IN
       IF col_name # ""
       THEN set_values(frame, target_col, column_of(df, col_name))
       ELSE set_scalar(frame, target_col, NaN)
  ELSE set_scalar(frame, target_col, NaN)

\* One iteration of the column mapping loop.
map_column(frame, df, target_col, source_col) ==
  IF source_col.kind = "list"
  THEN LET col_name == first_present(source_col.names, df.columns) IN
       IF col_name # ""
       THEN set_values(frame, target_col, column_of(df, col_name))
       ELSE set_scalar(frame, target_col, NaN)
  ELSE IF /\ source_col.kind = "name"
          /\ source_col.names[1] # ""
          /\ source_col.names[1] \in df.columns
       THEN set_values(frame, target_col, column_of(df, source_col.names[1]))
       ELSE set_scalar(frame, target_col, NaN)

\* The loop over mapper.items(), from item k on.  A frame is never None; the
\* comparison makes TLC evaluate the frame of each iteration before the next
\* one starts, as the loop does.
RECURSIVE map_columns(_, _, _, _)
map_columns(frame, df, mapper, k) ==
  IF frame = None \/ k > Len(mapper) THEN frame
  ELSE map_columns(map_column(frame, df, mapper[k][1], mapper[k][2]), df, mapper, k + 1)

\* The source column behind the Yes/No field; "" stands for None.
budget_col_name(df, mapper) ==
  LET rule == mapper_get(mapper, DEMANDS) IN
  IF rule.kind = "list" THEN first_present(rule.names, df.columns)
  ELSE IF rule.kind = "name" THEN rule.names[1]
  ELSE ""

\* Variant: a missing cell stays missing instead of becoming "No".
yes_no_keeps_nan(original_budget) ==
  LET budget_data == str_lower(astype_str(fillna(original_budget, <<>>))) IN
  IF isna(original_budget) THEN NaN
  ELSE IF budget_data = <<>> \/ budget_data \in no_strings THEN NO ELSE YES

\* The np.where of one row: "No" for a missing cell, an empty text or a text
\* whose lowercase form is one of no_strings; "Yes" otherwise.
yes_no(original_budget) ==
  LET budget_data == str_lower(astype_str(fillna(original_budget, <<>>))) IN
  IF \/ isna(original_budget)
     \/ budget_data = <<>>
     \/ budget_data \in no_strings
  THEN NO ELSE YES

normalize_budget(frame, df, mapper) ==
  LET name == budget_col_name(df, mapper) IN
  IF name # "" /\ name \in df.columns
  THEN set_values(frame, DEMANDS,
                  [r \in 1..Len(df.rows) |-> yes_no(df.rows[r][name])])
  ELSE frame

\* pd.read_excel: the table of the file, or an exception.
read_excel(file_obj) ==
  IF file_obj.ok THEN [exception |-> FALSE, df |-> [columns |-> file_obj.columns, rows |-> file_obj.rows]]
  ELSE [exception |-> TRUE, df |-> None]

\* Variant: the exception of read_excel is not caught.
process_file_uncaught(file_obj, mapper) ==
  LET read == read_excel(file_obj) IN
  IF read.exception
  THEN [raised |-> TRUE, error |-> FALSE, mapped |-> None, value |-> None]
  ELSE LET mapped == normalize_budget(map_columns(EmptyFrame, read.df, mapper, 1), read.df, mapper)
       IN [raised |-> FALSE, error |-> FALSE, mapped |-> mapped, value |-> dropna_all(mapped)]

\* raised: an exception leaves process_file; error: st.error was called;
\* mapped: standardized_df before the dropna; value: the value returned.
process_file(file_obj, mapper) ==
  LET read == read_excel(file_obj) IN
  IF read.exception
  THEN [raised |-> FALSE, error |-> TRUE, mapped |-> None, value |-> None]
  ELSE LET mapped == normalize_budget(map_columns(EmptyFrame, read.df, mapper, 1), read.df, mapper)
       IN [raised |-> FALSE, error |-> FALSE, mapped |-> mapped, value |-> dropna_all(mapped)]

(***************************************************************************)
(* Assembly                                                                *)
(***************************************************************************)
RECURSIVE concat_columns(_, _)
concat_columns(dfs, k) ==
  IF k = 0 THEN <<>>
  ELSE LET before == concat_columns(dfs, k - 1)
           fresh == SelectSeq(dfs[k].columns, LAMBDA c : c \notin Range(before))
       IN before \o fresh

RECURSIVE concat_rows(_, _, _)
concat_rows(dfs, cols, k) ==
  IF k = 0 THEN <<>>
  ELSE concat_rows(dfs, cols, k - 1) \o
       [r \in 1..Len(dfs[k].rows) |->
          [c \in Range(cols) |->
             IF c \in Range(dfs[k].columns) THEN dfs[k].rows[r][c] ELSE NaN]]

\* Variant: the frames are concatenated last to first.
pd_concat_reversed(dfs) ==
  LET rev == [k \in 1..Len(dfs) |-> dfs[Len(dfs) + 1 - k]]
      cols == concat_columns(rev, Len(rev)) IN
  [columns |-> cols, rows |-> concat_rows(rev, cols, Len(rev))]

\* pd.concat(dfs, ignore_index=True): the frames one after the other, in list
\* order, over the union of their columns.
pd_concat(dfs) ==
  LET cols == concat_columns(dfs, Len(dfs)) IN
  [columns |-> cols, rows |-> concat_rows(dfs, cols, Len(dfs))]

\* master_dataset["Sl No"] = range(1, len(master_dataset) + 1)
renumber(frame) ==
  set_values(frame, SL_NO, [r \in 1..Len(frame.rows) |-> Num(r)])

\* to_excel(writer, index=False, sheet_name="MASTER")
to_excel(frame) ==
  [sheet_name |-> "MASTER",
   header |-> frame.columns,
   rows |-> [r \in 1..Len(frame.rows) |->
               [k \in 1..Len(frame.columns) |-> frame.rows[r][frame.columns[k]]]]]

\* Variant: the emptiness test is forgotten.
usable_not_none(df) == df # None

\* processed_df is not None and not processed_df.empty
usable(df) == df # None /\ ~ is_empty(df)

msg(kind, file, n) == [kind |-> kind, file |-> file, n |-> n]

(***************************************************************************)
(* Inputs: the uploaded files                                              *)
(***************************************************************************)
\* Largest number of cells (rows times columns) of a generated source table.
MaxCells == 4

\* Largest number of rows of a generated source table.
MaxRows == 2

\* Largest number of files of a generated batch.
MaxFiles == 3

NOT_SPECIFIED == Str(<<"n","o","t"," ","s","p","e","c","i","f","i","e","d">>)

NOT_SPECIFIED_CAPS == Str(<<"N","o","t"," ","S","p","e","c","i","f","i","e","d">>)

NOT_SPECIFIED_PADDED == Str(<<" ","n","o","t"," ","s","p","e","c","i","f","i","e","d"," ">>)

NO_EXCLUSIVE_FUNDING ==
  Str(<<"N","o"," ","e","x","c","l","u","s","i","v","e"," ","f","u","n","d","i","n","g"," ","i","d","e","n","t","i","f","i","e","d">>)

ALLOCATED == Str(<<"$","2","M"," ","a","l","l","o","c","a","t","e","d">>)

\* The cells a budget column is filled from.
BudgetCells ==
  {NaN, NOT_SPECIFIED, NOT_SPECIFIED_CAPS, NOT_SPECIFIED_PADDED,
   NO_EXCLUSIVE_FUNDING, ALLOCATED, Num(5)}

\* The column names source tables are built from: aliases of canonical
\* fields, a key of the mapper that is no canonical field, and "Title",
\* which no alias rule names.
SrcNames ==
  {"Sl No", "Country", TITLE_FIRST, "Policy", BUDGET, THEMATIC, "Title"}

\* The non-missing cell of each column other than the budget column.
CellValue(c) ==
  CASE c = "Sl No" -> Num(7)
    [] c = "Country" -> Str(<<"I","N">>)
    [] c = TITLE_FIRST -> Str(<<"A">>)
    [] c = "Policy" -> Str(<<"B">>)
    [] c = "Year of adoption" -> Num(2020)
    [] c = THEMATIC -> Str(<<"T">>)
    [] OTHER -> Str(<<"U">>)

\* A cell read from a spreadsheet is NaN when blank (read_excel turns the
\* empty text into NaN), so no cell of a source table is the empty text.
RowsOver(cs) ==
  {[c \in cs |-> IF c = BUDGET THEN b ELSE IF c \in filled THEN CellValue(c) ELSE NaN] :
     b \in (IF BUDGET \in cs THEN BudgetCells ELSE {NaN}), filled \in SUBSET (cs \ {BUDGET})}

MaxRowsOf(cs) ==
  IF cs = {} THEN 0
  ELSE IF MaxCells \div Cardinality(cs) < MaxRows THEN MaxCells \div Cardinality(cs)
  ELSE MaxRows

TablesOver(cs) ==
  UNION {{[ok |-> TRUE, columns |-> cs, rows |-> rs] : rs \in [1..n -> RowsOver(cs)]} :
           n \in 0..MaxRowsOf(cs)}

UnreadableFile == [ok |-> FALSE, columns |-> {}, rows |-> <<>>]

SourceFiles ==
  {UnreadableFile} \cup
  UNION {TablesOver(cs) : cs \in {x \in SUBSET SrcNames : Cardinality(x) <= MaxCells}}

\* The files batches are built from.
PolicyFile ==
  [ok |-> TRUE, columns |-> {"Policy", "Country", BUDGET},
   rows |-> << [c \in {"Policy", "Country", BUDGET} |->
                  IF c = BUDGET THEN NO_EXCLUSIVE_FUNDING ELSE CellValue(c)] >>]

TitleFile ==
  [ok |-> TRUE, columns |-> {"Title", "Year of adoption"},
   rows |-> << [c \in {"Title", "Year of adoption"} |-> CellValue(c)] >>]

NumberedFile ==
  [ok |-> TRUE, columns |-> {"Sl No", "Country"},
   rows |-> << [c \in {"Sl No", "Country"} |-> CellValue(c)],
               [c \in {"Sl No", "Country"} |-> NaN],
               [c \in {"Sl No", "Country"} |-> IF c = "Sl No" THEN CellValue(c) ELSE NaN] >>]

UnmappedFile ==
  [ok |-> TRUE, columns |-> {"Title"}, rows |-> << [c \in {"Title"} |-> CellValue(c)] >>]

BatchFiles == {PolicyFile, TitleFile, NumberedFile, UnmappedFile, UnreadableFile}

Batches == UNION {[1..n -> BatchFiles] : n \in 0..MaxFiles}

(***************************************************************************)
(* main                                                                    *)
(***************************************************************************)
InitRest ==
  /\ pc = "loop"
  /\ idx = 1
  /\ all_dfs = <<>>
  /\ standardized_df = None
  /\ processed_df = None
  /\ master_dataset = None
  /\ download = None
  /\ messages = <<>>

\* A batch of up to MaxFiles files.
Init == uploaded_files \in Batches /\ InitRest

\* No file, or one file out of all the generated source tables.
InitFile == uploaded_files \in ({<<>>} \cup {<<f>> : f \in SourceFiles}) /\ InitRest

\* One iteration of "for f in uploaded_files".
ProcessNext ==
  /\ pc = "loop"
  /\ uploaded_files # <<>>
  /\ idx <= Len(uploaded_files)
  /\ LET res == process_file(uploaded_files[idx], mapper_clim)
         said == Append(messages, msg("write", idx, 0)) IN
     IF res.raised
     THEN /\ pc' = "aborted"
          /\ messages' = said
          /\ UNCHANGED <<uploaded_files, idx, all_dfs, standardized_df, processed_df,
                         master_dataset, download>>
     ELSE /\ standardized_df' = res.mapped
          /\ processed_df' = res.value
          /\ all_dfs' = IF usable(res.value) THEN Append(all_dfs, res.value) ELSE all_dfs
          /\ messages' =
               (IF res.error THEN Append(said, msg("error", idx, 0)) ELSE said) \o
               (IF usable(res.value)
                THEN <<msg("success", idx, Len(res.value.rows))>>
                ELSE <<msg("warning", idx, 0)>>)
          /\ idx' = idx + 1
          /\ UNCHANGED <<uploaded_files, pc, master_dataset, download>>

\* "if all_dfs:" after the loop: concatenate, renumber, export.
Assemble ==
  /\ pc = "loop"
  /\ uploaded_files # <<>>
  /\ idx > Len(uploaded_files)
  /\ all_dfs # <<>>
  /\ LET master == renumber(pd_concat(all_dfs)) IN
       /\ master_dataset' = master
       /\ download' = to_excel(master)
       /\ messages' = Append(messages, msg("total", 0, Len(master.rows)))
  /\ pc' = "done"
  /\ UNCHANGED <<uploaded_files, idx, all_dfs, standardized_df, processed_df>>

\* "else:" of "if all_dfs:".
NoData ==
  /\ pc = "loop"
  /\ uploaded_files # <<>>
  /\ idx > Len(uploaded_files)
  /\ all_dfs = <<>>
  /\ messages' = Append(messages, msg("info_no_data", 0, 0))
  /\ pc' = "done"
  /\ UNCHANGED <<uploaded_files, idx, all_dfs, standardized_df, processed_df,
                 master_dataset, download>>

\* "else:" of "if uploaded_files:".
NoUpload ==
  /\ pc = "loop"
  /\ uploaded_files = <<>>
  /\ messages' = Append(messages, msg("info_upload", 0, 0))
  /\ pc' = "done"
  /\ UNCHANGED <<uploaded_files, idx, all_dfs, standardized_df, processed_df,
                 master_dataset, download>>

Next == ProcessNext \/ Assemble \/ NoData \/ NoUpload

Spec == Init /\ [][Next]_vars

SpecFile == InitFile /\ [][Next]_vars

(***************************************************************************)
(* Properties                                                              *)
(***************************************************************************)
\* The file the last iteration of the loop handed to process_file.
LastFile == uploaded_files[idx - 1]

\* process_file has mapped a loadable file: standardized_df is its table
\* before the dropna, processed_df the table returned.
Mapped == idx > 1 /\ LastFile.ok

Whitespace == {" ", "\t", "\n", "\r"}

RECURSIVE TrimLeft(_)
TrimLeft(chars) ==
  IF chars = <<>> THEN chars
  ELSE IF Head(chars) \in Whitespace THEN TrimLeft(Tail(chars)) ELSE chars

RECURSIVE TrimRight(_)
TrimRight(chars) ==
  IF chars = <<>> THEN chars
  ELSE IF chars[Len(chars)] \in Whitespace
       THEN TrimRight(SubSeq(chars, 1, Len(chars) - 1)) ELSE chars

Trim(chars) == TrimRight(TrimLeft(chars))

\* The cell text with case and surrounding whitespace removed.
Folded(cell) == Trim(str_lower(astype_str(cell)))

HasCanonicalValue(row) == \E c \in Range(MASTER_COLUMNS) : ~ isna(row[c])

\* The rules of the canonical fields, by shape.
SingleRules == {k \in DOMAIN mapper_clim :
                  mapper_clim[k][1] \in Range(MASTER_COLUMNS) /\ mapper_clim[k][2].kind = "name"}

ListRules == {k \in DOMAIN mapper_clim :
                mapper_clim[k][1] \in Range(MASTER_COLUMNS) /\ mapper_clim[k][2].kind = "list"}

\* Column target of the mapped table is, element by element, column name of
\* the source table.
CopiedFrom(target, name) ==
  /\ Len(standardized_df.rows) = Len(LastFile.rows)
  /\ \A r \in 1..Len(LastFile.rows) : standardized_df.rows[r][target] = LastFile.rows[r][name]

AllMissing(target) ==
  \A r \in 1..Len(standardized_df.rows) : isna(standardized_df.rows[r][target])

\* C1: the table process_file returns, and the header of the exported master
\* dataset, have exactly the 18 columns of MASTER_COLUMNS, in that order.
C1_ExactlyMasterColumns ==
  /\ (Mapped => processed_df.columns = MASTER_COLUMNS)
  /\ (download # None => download.header = MASTER_COLUMNS)

\* C2: with the budget column present, a row's Yes/No value is "No" when the
\* cell is missing, empty, or one of the five phrases after trimming and
\* lowercasing, and "Yes" otherwise; cells that differ only in case or in
\* surrounding whitespace are classified alike.
C2_TrimmedClassification ==
  (Mapped /\ BUDGET \in LastFile.columns) =>
    /\ Len(standardized_df.rows) = Len(LastFile.rows)
    /\ \A r \in 1..Len(LastFile.rows) :
         standardized_df.rows[r][DEMANDS] =
           (IF \/ isna(LastFile.rows[r][BUDGET])
               \/ astype_str(LastFile.rows[r][BUDGET]) = <<>>
               \/ Folded(LastFile.rows[r][BUDGET]) \in no_strings
            THEN NO ELSE YES)
    /\ \A r1, r2 \in 1..Len(LastFile.rows) :
         (/\ ~ isna(LastFile.rows[r1][BUDGET])
          /\ ~ isna(LastFile.rows[r2][BUDGET])
          /\ Folded(LastFile.rows[r1][BUDGET]) = Folded(LastFile.rows[r2][BUDGET]))
         => standardized_df.rows[r1][DEMANDS] = standardized_df.rows[r2][DEMANDS]

\* C3 as stated: every canonical field with a single-name alias, the Yes/No
\* field included, is a copy of its source column when that column is
\* present, and entirely missing otherwise.
C3_SingleAliasCopiesAll ==
  Mapped =>
    \A k \in SingleRules :
      IF mapper_clim[k][2].names[1] \in LastFile.columns
      THEN CopiedFrom(mapper_clim[k][1], mapper_clim[k][2].names[1])
      ELSE AllMissing(mapper_clim[k][1])

\* C3 amended: every canonical field with a single-name alias other than the
\* Yes/No field is a copy of its source column when that column is present;
\* the Yes/No field then holds "Yes" or "No" in every row; every such field,
\* the Yes/No field included, is entirely missing when its source column is
\* absent.
C3_SingleAliasCopies ==
  Mapped =>
    \A k \in SingleRules :
      IF mapper_clim[k][2].names[1] \in LastFile.columns
      THEN IF mapper_clim[k][1] = DEMANDS
           THEN /\ Len(standardized_df.rows) = Len(LastFile.rows)
                /\ \A r \in 1..Len(standardized_df.rows) :
                     standardized_df.rows[r][DEMANDS] \in {YES, NO}
           ELSE CopiedFrom(mapper_clim[k][1], mapper_clim[k][2].names[1])
      ELSE AllMissing(mapper_clim[k][1])

\* A table with a filled Country cell, a budget column and a single-name
\* alias that is absent (Sl No) has been mapped.
C3_Witness ==
  /\ Mapped
  /\ {"Country", BUDGET} \subseteq LastFile.columns
  /\ "Sl No" \notin LastFile.columns
  /\ \E r \in 1..Len(LastFile.rows) : ~ isna(LastFile.rows[r]["Country"])

\* C4: a canonical field with a list of candidates is a copy of the source
\* column of the first candidate, in list order, that the source table has;
\* it is entirely missing when the table has none of them.
C4_FirstCandidateWins ==
  Mapped =>
    \A k \in ListRules :
      LET names == mapper_clim[k][2].names IN
      \/ /\ \A j \in DOMAIN names : names[j] \notin LastFile.columns
         /\ AllMissing(mapper_clim[k][1])
      \/ \E j \in DOMAIN names :
           /\ names[j] \in LastFile.columns
           /\ \A e \in 1..(j - 1) : names[e] \notin LastFile.columns
           /\ CopiedFrom(mapper_clim[k][1], names[j])

\* Both candidates of Title are columns of the table and differ in a row; the
\* mapped Title is the first one's cell.
C4_Witness ==
  /\ Mapped
  /\ {TITLE_FIRST, "Policy"} \subseteq LastFile.columns
  /\ \E r \in 1..Len(LastFile.rows) :
       /\ ~ isna(LastFile.rows[r][TITLE_FIRST])
       /\ ~ isna(LastFile.rows[r]["Policy"])
       /\ LastFile.rows[r][TITLE_FIRST] # LastFile.rows[r]["Policy"]
       /\ standardized_df.rows[r]["Title"] = LastFile.rows[r][TITLE_FIRST]

\* C5: the table returned keeps exactly the mapped rows with at least one
\* non-missing canonical field, in their order; a row whose canonical fields
\* are all missing is excluded.
C5_DropsRowsWithoutCanonicalValue ==
  Mapped =>
    processed_df.rows = SelectSeq(standardized_df.rows, HasCanonicalValue)

\* C10: with the budget column present, every returned row holds "Yes" or
\* "No" in the Yes/No field and no row is dropped.
C10_BudgetColumnKeepsEveryRow ==
  (Mapped /\ BUDGET \in LastFile.columns) =>
    /\ \A r \in 1..Len(processed_df.rows) : processed_df.rows[r][DEMANDS] \in {YES, NO}
    /\ Len(processed_df.rows) = Len(LastFile.rows)

\* A table with a budget column and a row whose every cell is empty has been
\* processed, and the row is in the table returned.
C10_Witness ==
  /\ Mapped
  /\ BUDGET \in LastFile.columns
  /\ Cardinality(LastFile.columns) > 1
  /\ \E r \in 1..Len(LastFile.rows) :
       /\ \A c \in LastFile.columns : isna(LastFile.rows[r][c])
       /\ Len(processed_df.rows) = Len(LastFile.rows)
       /\ processed_df.rows[r][DEMANDS] = NO
\* What process_file returns for file k of the batch.
Returned(k) == process_file(uploaded_files[k], mapper_clim).value

\* File k yields a standardized table with at least one row.
Yields(k) == Returned(k) # None /\ Len(Returned(k).rows) >= 1

\* The rows of the tables of the yielding files among the first k, in upload
\* order.
RECURSIVE RowsUpTo(_)
RowsUpTo(k) ==
  IF k = 0 THEN <<>>
  ELSE IF Yields(k) THEN RowsUpTo(k - 1) \o Returned(k).rows ELSE RowsUpTo(k - 1)

\* The batch without its failing files, as a run of tables.
RECURSIVE TablesUpTo(_)
TablesUpTo(k) ==
  IF k = 0 THEN <<>>
  ELSE IF Yields(k) THEN Append(TablesUpTo(k - 1), Returned(k)) ELSE TablesUpTo(k - 1)

Said(kind, file) == \E m \in DOMAIN messages : messages[m].kind = kind /\ messages[m].file = file

\* C6: the master dataset holds the rows of the non-empty standardized
\* tables in upload order, each table's rows in their order, none dropped or
\* merged; Sl No is 1..N whatever the sources held, and every other field of
\* every row is as process_file returned it.
C6_MasterIsConcatenation ==
  (pc = "done" /\ master_dataset # None) =>
    LET rows == RowsUpTo(Len(uploaded_files)) IN
    /\ Len(master_dataset.rows) = Len(rows)
    /\ \A r \in 1..Len(rows) :
         /\ DOMAIN master_dataset.rows[r] = DOMAIN rows[r]
         /\ master_dataset.rows[r][SL_NO] = Num(r)
         /\ \A c \in (DOMAIN rows[r]) \ {SL_NO} : master_dataset.rows[r][c] = rows[r][c]

\* The same file was uploaded twice, its rows carry Sl No 7, and the master
\* dataset holds the rows of both copies.
C6_Witness ==
  /\ pc = "done"
  /\ master_dataset # None
  /\ Len(all_dfs) >= 2
  /\ all_dfs[1] = all_dfs[2]
  /\ Len(all_dfs[1].rows) >= 2
  /\ \A r \in 1..Len(all_dfs[1].rows) : all_dfs[1].rows[r][SL_NO] = Num(7)
  /\ Len(master_dataset.rows) >= 4

\* C7: a file that cannot be loaded or yields no row never aborts the batch:
\* no exception leaves process_file, the file gets its error and warning,
\* every file is processed, and the master dataset is the one of the batch
\* without the failing files.
C7_FailureIsIsolated ==
  /\ pc # "aborted"
  /\ (pc = "done" /\ uploaded_files # <<>>) =>
       /\ idx = Len(uploaded_files) + 1
       /\ \A k \in DOMAIN uploaded_files :
            /\ Said("write", k)
            /\ ~ Yields(k) => (Said("warning", k) /\ ~ Said("success", k))
            /\ ~ uploaded_files[k].ok => Said("error", k)
       /\ LET tables == TablesUpTo(Len(uploaded_files)) IN
          IF tables = <<>> THEN master_dataset = None
          ELSE master_dataset = renumber(pd_concat(tables))

\* An unreadable file sat between two files that yielded rows; its error was
\* reported and the master dataset was built from the other two.
C7_Witness ==
  /\ pc = "done"
  /\ Len(uploaded_files) = 3
  /\ ~ uploaded_files[2].ok
  /\ Said("error", 2)
  /\ Len(all_dfs) = 2
  /\ master_dataset # None

\* C8: for a non-empty batch the export (sheet MASTER) is produced exactly
\* when some file yielded a table with at least one row; otherwise nothing
\* is assembled or exported and the no-data information is shown.
C8_ArtifactIffData ==
  uploaded_files # <<>> =>
    /\ pc = "loop" => (download = None /\ master_dataset = None)
    /\ pc = "done" =>
         IF \E k \in DOMAIN uploaded_files : Yields(k)
         THEN /\ download # None
              /\ download.sheet_name = "MASTER"
              /\ master_dataset # None
              /\ ~ Said("info_no_data", 0)
         ELSE /\ download = None
              /\ master_dataset = None
              /\ messages[Len(messages)] = msg("info_no_data", 0, 0)

\* A batch of two or more files, one of them loadable, ended without data.
C8_Witness ==
  /\ pc = "done"
  /\ Len(uploaded_files) >= 2
  /\ \E k \in DOMAIN uploaded_files : uploaded_files[k].ok
  /\ download = None
  /\ Said("info_no_data", 0)

\* C9: the end-to-end scenario: {Policy, Country, budget} with the budget
\* text "No exclusive funding identified", then {Title, Year of adoption};
\* the master dataset has 2 rows and both hold "No" in the Yes/No field.
C9_ScenarioBothNo ==
  (/\ pc = "done"
   /\ Len(uploaded_files) = 2
   /\ uploaded_files[1].ok
   /\ uploaded_files[1].columns = {"Policy", "Country", BUDGET}
   /\ Len(uploaded_files[1].rows) = 1
   /\ uploaded_files[1].rows[1][BUDGET] = NO_EXCLUSIVE_FUNDING
   /\ uploaded_files[2].ok
   /\ uploaded_files[2].columns = {"Title", "Year of adoption"}
   /\ Len(uploaded_files[2].rows) = 1
   /\ \E c \in uploaded_files[2].columns : ~ isna(uploaded_files[2].rows[1][c]))
  => /\ master_dataset # None
     /\ Len(master_dataset.rows) = 2
     /\ master_dataset.rows[1][DEMANDS] = NO
     /\ master_dataset.rows[2][DEMANDS] = NO

====
